---- MODULE Spec2Model ----
(***************************************************************************)
(* torchdyn/core/utils.py: the three tensor-concatenation modules          *)
(* Augmenter, DepthCat and DataControl, as a state machine over one module *)
(* object (self) and the last operation its driver performed on it (last). *)
(*                                                                         *)
(* Tensors are rank-2 arrays with a dtype ("int" or "float").  A number is *)
(* held in fixed point: the integer n stands for n / One, so that One is   *)
(* the number 1 and 1 is the number 0.5.  An "int" tensor holds whole      *)
(* numbers only.  Devices are not modelled: .to(x) is the dtype cast.      *)
(***************************************************************************)
EXTENDS Integers, Sequences, FiniteSets, TLC

\* ------------------------------------------------------------------ bounds
MaxB == 2
MaxC == 2
MaxAug == 2

\* ------------------------------------------------- numbers, dtypes, values
\* The entry torch.ones fills with: the number 1 in fixed point.
One == 2

\* The entry torch.zeros fills with.
Zero == 0

DTypes == {"int", "float"}

\* Casting a number to an integer dtype truncates toward zero.
Trunc(n) == IF n >= 0 THEN n - (n % One) ELSE -((-n) - ((-n) % One))

\* Type promotion of two operands: floating as soon as one of them is.
Promote(d1, d2) == IF d1 = "float" \/ d2 = "float" THEN "float" ELSE "int"

\* MulVal with the product written as a sum.
MulVal_added(a, b) == a + b

\* The product of two numbers (exact whenever one of them is whole).
MulVal(a, b) == (a * b) \div One

None == [kind |-> "none"]

TypeError == [kind |-> "error", what |-> "TypeError"]

RuntimeError == [kind |-> "error", what |-> "RuntimeError"]

IsTensor(t) == t.kind = "tensor"

IsError(t) == t.kind = "error"

Scalar(dt, v) == [kind |-> "scalar", dtype |-> dt, val |-> v]

Tensor(dt, B, C, data) ==
    [kind |-> "tensor", dtype |-> dt, rows |-> B, cols |-> C, data |-> data]

\* A tensor of the given shape with every entry v.
Full(dt, B, C, v) == Tensor(dt, B, C, [r \in 1..B |-> [c \in 1..C |-> v]])

\* Zeros filling with ones.
Zeros_filledOnes(B, C) == Full("float", B, C, One)

\* torch.zeros(shape) and torch.ones(shape): default (floating) dtype.
Zeros(B, C) == Full("float", B, C, Zero)

Ones(B, C) == Full("float", B, C, One)

\* t converted to dtype dt.
Convert(t, dt) ==
    IF t.dtype = dt THEN t
    ELSE Tensor(dt, t.rows, t.cols,
                [r \in 1..t.rows |-> [c \in 1..t.cols |->
                    IF dt = "int" THEN Trunc(t.data[r][c]) ELSE t.data[r][c]]])

\* t.to(x): t in x's dtype; an exception raised while computing t propagates.
To(t, x) == IF IsTensor(t) THEN Convert(t, x.dtype) ELSE t

\* A negative axis counts from the end (rank 2).
NormAxis(i) == IF i < 0 THEN i + 2 ELSE i

\* The size of t along axis i.
Size(t, i) == IF NormAxis(i) = 0 THEN t.rows ELSE t.cols

\* list(x.shape) with entry i replaced by n, as <<rows, cols>>.
NewDims(x, i, n) ==
    IF NormAxis(i) = 0 THEN <<n, x.cols>> ELSE <<x.rows, n>>

\* torch.cat([a, b], dim): a then b along dim, in the promoted dtype.
Cat(a, b, dim) ==
    IF ~IsTensor(a) \/ ~IsTensor(b) THEN TypeError
    ELSE LET dt == Promote(a.dtype, b.dtype)
             ca == Convert(a, dt)
             cb == Convert(b, dt)
         IN  IF NormAxis(dim) = 0
             THEN IF a.cols # b.cols THEN RuntimeError
                  ELSE Tensor(dt, ca.rows + cb.rows, ca.cols,
                         [r \in 1..(ca.rows + cb.rows) |->
                            IF r <= ca.rows THEN ca.data[r]
                            ELSE cb.data[r - ca.rows]])
             ELSE IF a.rows # b.rows THEN RuntimeError
                  ELSE Tensor(dt, ca.rows, ca.cols + cb.cols,
                         [r \in 1..ca.rows |-> [c \in 1..(ca.cols + cb.cols) |->
                            IF c <= ca.cols THEN ca.data[r][c]
                            ELSE cb.data[r][c - ca.cols]]])

\* Broadcasting of two sizes along one axis: equal, or one of them 1.
CanBroadcast(m, n) == m = n \/ m = 1 \/ n = 1

BroadcastDim(m, n) == IF m = 1 THEN n ELSE m

\* s * t for a stored value s (None, a Python number or a tensor) and a tensor t.
Mul(s, t) ==
    IF s.kind = "none" THEN TypeError
    ELSE IF s.kind = "scalar"
    THEN Tensor(Promote(s.dtype, t.dtype), t.rows, t.cols,
                [r \in 1..t.rows |-> [c \in 1..t.cols |-> MulVal(s.val, t.data[r][c])]])
    ELSE IF ~CanBroadcast(s.rows, t.rows) \/ ~CanBroadcast(s.cols, t.cols)
    THEN RuntimeError
    ELSE LET B == BroadcastDim(s.rows, t.rows)
             C == BroadcastDim(s.cols, t.cols)
         IN  Tensor(Promote(s.dtype, t.dtype), B, C,
                [r \in 1..B |-> [c \in 1..C |->
                    MulVal(s.data[IF s.rows = 1 THEN 1 ELSE r][IF s.cols = 1 THEN 1 ELSE c],
                           t.data[IF t.rows = 1 THEN 1 ELSE r][IF t.cols = 1 THEN 1 ELSE c])]])

\* ------------------------------------------------------ augment_func modules
\* A module mapping x to a floating tensor of x's shape with axis `axis` resized
\* to k: slice j holds the sum of x along that axis, plus j halves.
WidenModule(a, k) == [kind |-> "widen", axis |-> a, k |-> k]

\* nn.Sequential(*mods); with no children it has length 0 and returns its input.
SequentialModule(mods) == [kind |-> "sequential", mods |-> mods]

\* Python truth value of self.augment_func: None is false, a container module
\* (one that defines __len__) is false when empty, any other module is true.
Truthy(f) ==
    IF f.kind = "none" THEN FALSE
    ELSE IF f.kind = "sequential" THEN Len(f.mods) > 0
    ELSE TRUE

RECURSIVE SumSeq(_)
SumSeq(s) == IF Len(s) = 0 THEN 0 ELSE Head(s) + SumSeq(Tail(s))

\* The sum of x along axis a at position p of the other axis.
SumAlong(x, a, p) ==
    IF a = 0 THEN SumSeq([r \in 1..x.rows |-> x.data[r][p]])
    ELSE SumSeq(x.data[p])

ApplyWiden(f, x) ==
    IF f.axis = 0
    THEN Tensor("float", f.k, x.cols,
            [r \in 1..f.k |-> [c \in 1..x.cols |-> SumAlong(x, 0, c) + r]])
    ELSE Tensor("float", x.rows, f.k,
            [r \in 1..x.rows |-> [c \in 1..f.k |-> SumAlong(x, 1, r) + c]])

RECURSIVE ApplySeq(_, _)
ApplySeq(mods, x) ==
    IF Len(mods) = 0 THEN x ELSE ApplySeq(Tail(mods), ApplyWiden(Head(mods), x))

\* self.augment_func(x)
Apply(f, x) ==
    IF f.kind = "sequential" THEN ApplySeq(f.mods, x) ELSE ApplyWiden(f, x)

\* ------------------------------------------------------------ the modules
\* Augmenter.__init__
Augmenter(idx, dims, func, order) ==
    [class |-> "Augmenter", augment_dims |-> dims, augment_idx |-> idx,
     augment_func |-> func, order |-> order]

\* Augmenter.forward with the order field ignored: augmentation always first.
Augmenter_forward_orderIgnored(m, x) ==
    IF ~Truthy(m.augment_func)
    THEN LET new_dims == NewDims(x, m.augment_idx, m.augment_dims)
         IN  Cat(To(Zeros(new_dims[1], new_dims[2]), x), x, m.augment_idx)
    ELSE Cat(To(Apply(m.augment_func, x), x), x, m.augment_idx)

\* Augmenter.forward: the returned value (no field is assigned).
Augmenter_forward(m, x) ==
    IF ~Truthy(m.augment_func)
    THEN LET new_dims == NewDims(x, m.augment_idx, m.augment_dims)
         IN  IF m.order = "first"
             THEN Cat(To(Zeros(new_dims[1], new_dims[2]), x), x, m.augment_idx)
             ELSE Cat(x, To(Zeros(new_dims[1], new_dims[2]), x), m.augment_idx)
    ELSE IF m.order = "first"
         THEN Cat(To(Apply(m.augment_func, x), x), x, m.augment_idx)
         ELSE Cat(x, To(Apply(m.augment_func, x), x), m.augment_idx)

\* DepthCat.__init__
DepthCat(idx) == [class |-> "DepthCat", idx_cat |-> idx, s |-> None]

\* DepthCat.forward concatenating [self.s, x] instead of [x, self.s].
DepthCat_forward_sFirst(m, x) ==
    LET s_shape == NewDims(x, m.idx_cat, 1)
        prod == Mul(m.s, To(Ones(s_shape[1], s_shape[2]), x))
    IN  IF IsError(prod) THEN [self |-> m, out |-> prod]
        ELSE [self |-> [m EXCEPT !.s = prod],
              out |-> To(Cat(prod, x, m.idx_cat), x)]

\* DepthCat.forward returning x unchanged while s is unset.
DepthCat_forward_unsetSkipped(m, x) ==
    LET s_shape == NewDims(x, m.idx_cat, 1)
        prod == Mul(m.s, To(Ones(s_shape[1], s_shape[2]), x))
    IN  IF m.s = None THEN [self |-> m, out |-> x]
        ELSE IF IsError(prod) THEN [self |-> m, out |-> prod]
        ELSE [self |-> [m EXCEPT !.s = prod],
              out |-> To(Cat(x, prod, m.idx_cat), x)]

\* DepthCat.forward: the module after the call and the outcome of the call.
\* self.s is assigned the product before the concatenation runs; when the
\* product raises, nothing has been assigned.
DepthCat_forward(m, x) ==
    LET s_shape == NewDims(x, m.idx_cat, 1)
        prod == Mul(m.s, To(Ones(s_shape[1], s_shape[2]), x))
    IN  IF IsError(prod) THEN [self |-> m, out |-> prod]
        ELSE [self |-> [m EXCEPT !.s = prod],
              out |-> To(Cat(x, prod, m.idx_cat), x)]

\* DataControl.__init__
DataControl == [class |-> "DataControl", u |-> None]

\* DataControl.forward concatenating [self.u, x] instead of [x, self.u].
DataControl_forward_uFirst(m, x) == To(Cat(m.u, x, 1), x)

\* DataControl.forward: the returned value (no field is assigned).
DataControl_forward(m, x) == To(Cat(x, m.u, 1), x)

\* ------------------------------------------------------------------ inputs
Axes == {-2, -1, 0, 1}

Orders == {"first", "last"}

\* Entry (r, c) of the input tensor with the given seed: consecutive numbers in
\* row-major order, whole for "int", in steps of one half for "float".
Entry(dt, seed, C, r, c) ==
    LET n == seed + (r - 1) * C + (c - 1)
    IN  IF dt = "int" THEN One * n ELSE n

InputTensor(dt, B, C, seed) ==
    Tensor(dt, B, C, [r \in 1..B |-> [c \in 1..C |-> Entry(dt, seed, C, r, c)]])

\* The first entries of the input tensors, and the Python numbers assigned to s.
Seeds == {0, 1}

IntNumbers == {One, One + One}

FloatNumbers == {-1, 1, One}

XTensors ==
    { InputTensor(dt, B, C, seed) :
        dt \in DTypes, B \in 1..MaxB, C \in 1..MaxC, seed \in Seeds }

WidenModules == { WidenModule(a, k) : a \in {0, 1}, k \in 1..MaxAug }

AugmentFuncs ==
    {None} \cup WidenModules \cup {SequentialModule(<<>>)}
           \cup { SequentialModule(<<w>>) : w \in WidenModules }

Augmenters ==
    { Augmenter(i, d, f, o) :
        i \in Axes, d \in 0..MaxAug, f \in AugmentFuncs, o \in Orders }

DepthCats == { DepthCat(i) : i \in Axes }

\* The depth values a driver assigns: Python numbers and column tensors.
SValues ==
    { Scalar("int", n) : n \in IntNumbers }
    \cup { Scalar("float", n) : n \in FloatNumbers }
    \cup { t \in XTensors : t.cols = 1 }

UValues == XTensors

\* ------------------------------------------------------------------- state
VARIABLES self, last, assigned

vars == <<self, last, assigned>>

\* The driver's last operation on the module: the input and outcome of a
\* forward call, the module as it was before it, and, when the operation
\* before was a forward call on the same input, that call's outcome.
Op(op, x, out, pre, again, prevOut) ==
    [op |-> op, x |-> x, out |-> out, pre |-> pre, again |-> again,
     prevOut |-> prevOut]

Again(x) == last.op = "forward" /\ last.x = x

Forward(x, out) ==
    Op("forward", x, out, self, Again(x), IF Again(x) THEN last.out ELSE None)

Init ==
    /\ self \in Augmenters \cup DepthCats \cup {DataControl}
    /\ last = Op("new", None, None, None, FALSE, None)
    /\ assigned = None

AugmenterForward ==
    /\ self.class = "Augmenter"
    /\ \E x \in XTensors :
         last' = Forward(x, Augmenter_forward(self, x))
    /\ UNCHANGED <<self, assigned>>

SetS ==
    /\ self.class = "DepthCat"
    /\ \E v \in SValues :
         /\ self' = [self EXCEPT !.s = v]
         /\ assigned' = v
    /\ last' = Op("set", None, None, self, FALSE, None)

DepthCatForward ==
    /\ self.class = "DepthCat"
    /\ \E x \in XTensors :
         LET res == DepthCat_forward(self, x)
         IN  /\ self' = res.self
             /\ last' = Forward(x, res.out)
    /\ UNCHANGED assigned

SetU ==
    /\ self.class = "DataControl"
    /\ \E v \in UValues :
         /\ self' = [self EXCEPT !.u = v]
         /\ assigned' = v
    /\ last' = Op("set", None, None, self, FALSE, None)

DataControlForward ==
    /\ self.class = "DataControl"
    /\ \E x \in XTensors :
         last' = Forward(x, DataControl_forward(self, x))
    /\ UNCHANGED <<self, assigned>>

Next ==
    \/ AugmenterForward
    \/ SetS
    \/ DepthCatForward
    \/ SetU
    \/ DataControlForward

Spec == Init /\ [][Next]_vars

\* ------------------------------------------------------------------ claims
\* Entry j along axis i of t, at position p of the other axis.
At(t, i, j, p) == IF NormAxis(i) = 0 THEN t.data[j][p] ELSE t.data[p][j]

\* The size of t along the axis other than i.
OtherSize(t, i) == IF NormAxis(i) = 0 THEN t.cols ELSE t.rows

\* The last operation was a forward call on a module of class cls.
Called(cls) == last.op = "forward" /\ last.pre.class = cls

\* y is x's shape with axis i grown by n.
GrownBy(y, x, i, n) ==
    /\ IsTensor(y)
    /\ Size(y, i) = Size(x, i) + n
    /\ OtherSize(y, i) = OtherSize(x, i)

\* Slices from+1 .. from+Size(x, i) of y along axis i are the slices of x, in order.
HoldsX(y, x, i, from) ==
    \A j \in 1..Size(x, i) : \A p \in 1..OtherSize(x, i) :
        At(y, i, from + j, p) = At(x, i, j, p)

\* Slices from+1 .. from+n of y along axis i are all zero.
ZeroSlices(y, i, from, n) ==
    \A j \in 1..n : \A p \in 1..OtherSize(y, i) : At(y, i, from + j, p) = 0

\* C1: an Augmenter with augment_func=None and order='first' returns x's shape
\* with axis augment_idx grown by augment_dims, the first augment_dims slices
\* along that axis all zero and the remaining slices those of x, in order.
C1_ZeroFillFirst ==
    (Called("Augmenter") /\ last.pre.augment_func = None /\ last.pre.order = "first")
    => LET i == last.pre.augment_idx
           d == last.pre.augment_dims
       IN  /\ GrownBy(last.out, last.x, i, d)
           /\ ZeroSlices(last.out, i, 0, d)
           /\ HoldsX(last.out, last.x, i, d)

C1_Witness ==
    /\ Called("Augmenter")
    /\ last.pre.augment_func = None
    /\ last.pre.order = "first"
    /\ last.pre.augment_dims = 2
    /\ last.pre.augment_idx = 0
    /\ last.x.rows = 2 /\ last.x.cols = 2
    /\ last.x.data[1][2] # 0
    /\ IsTensor(last.out) /\ last.out.rows = 4

\* C2: an Augmenter with augment_func=None and order='last' returns a tensor
\* whose last augment_dims slices along axis augment_idx are all zero and whose
\* leading slices along that axis equal x.
C2_ZeroFillLast ==
    (Called("Augmenter") /\ last.pre.augment_func = None /\ last.pre.order = "last")
    => LET i == last.pre.augment_idx
           d == last.pre.augment_dims
       IN  /\ GrownBy(last.out, last.x, i, d)
           /\ ZeroSlices(last.out, i, Size(last.x, i), d)
           /\ HoldsX(last.out, last.x, i, 0)

C2_Witness ==
    /\ Called("Augmenter")
    /\ last.pre.augment_func = None
    /\ last.pre.order = "last"
    /\ last.pre.augment_dims = 2
    /\ last.pre.augment_idx = 1
    /\ last.x.rows = 2 /\ last.x.cols = 2
    /\ last.x.data[2][1] # 0
    /\ IsTensor(last.out) /\ last.out.cols = 4

\* augment_func is set and its output on x agrees with x on every axis but i.
FuncFits(m, x) ==
    /\ m.augment_func # None
    /\ OtherSize(Apply(m.augment_func, x), m.augment_idx) = OtherSize(x, m.augment_idx)

\* C3: an Augmenter whose augment_func is set and returns width k along axis
\* augment_idx returns a tensor whose axis augment_idx is larger than x's by
\* exactly k, whatever augment_dims is, with the non-augmented region (trailing
\* for 'first', leading for 'last') equal to x.
C3_LearnedWidth ==
    (Called("Augmenter") /\ FuncFits(last.pre, last.x))
    => LET i == last.pre.augment_idx
           k == Size(Apply(last.pre.augment_func, last.x), i)
       IN  /\ GrownBy(last.out, last.x, i, k)
           /\ HoldsX(last.out, last.x, i, IF last.pre.order = "first" THEN k ELSE 0)

\* C4: when augment_func maps width d along augment_idx to width d + a, the
\* Augmenter returns a tensor of width d + a along augment_idx.
C4_DocstringWidth ==
    (/\ Called("Augmenter")
     /\ FuncFits(last.pre, last.x)
     /\ Truthy(last.pre.augment_func)
     /\ Size(Apply(last.pre.augment_func, last.x), last.pre.augment_idx)
            > Size(last.x, last.pre.augment_idx))
    => /\ IsTensor(last.out)
       /\ Size(last.out, last.pre.augment_idx)
            = Size(Apply(last.pre.augment_func, last.x), last.pre.augment_idx)

\* A number as a tensor of dtype dt holds it: truncated toward zero for "int".
InDType(v, dt) == IF dt = "int" THEN Trunc(v) ELSE v

\* y is x with one more column, its first columns those of x.
OneMoreColumn(y, x) ==
    /\ IsTensor(y)
    /\ y.rows = x.rows
    /\ y.cols = x.cols + 1
    /\ \A r \in 1..x.rows : \A c \in 1..x.cols : y.data[r][c] = x.data[r][c]

\* The DepthCat call C5 is about: idx_cat=1 and s a scalar at the call.
ScalarDepthCall ==
    Called("DepthCat") /\ last.pre.idx_cat = 1 /\ last.pre.s.kind = "scalar"

ControlCall ==
    /\ Called("DataControl")
    /\ IsTensor(last.pre.u)
    /\ last.pre.u.rows = last.x.rows

\* y is x followed along axis 1 by the columns of w.
XThenColumns(y, x, w) ==
    /\ IsTensor(y)
    /\ y.rows = x.rows
    /\ y.cols = x.cols + w.cols
    /\ \A r \in 1..x.rows : \A c \in 1..x.cols : y.data[r][c] = x.data[r][c]
    /\ \A r \in 1..x.rows : \A c \in 1..w.cols : y.data[r][x.cols + c] = w.data[r][c]

C7_UnsetRaises ==
    ((Called("DepthCat") \/ Called("DataControl")) /\ assigned = None)
    => IsError(last.out)

C7_Witness ==
    /\ Called("DepthCat")
    /\ assigned = None
    /\ last.again
    /\ IsError(last.prevOut)
    /\ IsError(last.out)

\* C8: after a forward call that returns, every field of the module holds the
\* value it held before the call.
C8_ForwardKeepsFields ==
    (last.op = "forward" /\ ~IsError(last.out)) => self = last.pre

\* The stored state C9 is about: zero-fill for Augmenter, an assigned s or u.
StoredStateSet ==
    \/ Called("Augmenter") /\ last.pre.augment_func = None
    \/ (Called("DepthCat") \/ Called("DataControl")) /\ assigned # None

\* C9: two successive forward calls on the same input, with no assignment in
\* between, have identical outcomes.
C9_Deterministic ==
    (StoredStateSet /\ last.again) => last.out = last.prevOut

C9_Witness ==
    /\ Called("DepthCat")
    /\ assigned = Scalar("float", 1)
    /\ last.again
    /\ last.pre.s # assigned
    /\ IsTensor(last.out)
    /\ last.out = last.prevOut

\* C10: once the driver has assigned s a scalar v, every later forward call
\* succeeds and returns its own x followed along idx_cat by one slice filled
\* with v, whatever inputs the calls before it had.  The slice is compared in
\* x's dtype, as in C5.
C10_HistoryIndependent ==
    (Called("DepthCat") /\ assigned.kind = "scalar")
    => LET i == last.pre.idx_cat
       IN  /\ GrownBy(last.out, last.x, i, 1)
           /\ HoldsX(last.out, last.x, i, 0)
           /\ \A p \in 1..OtherSize(last.x, i) :
                At(last.out, i, Size(last.x, i) + 1, p)
                    = InDType(assigned.val, last.x.dtype)

====
